---- MODULE Spec2Model ----
(***************************************************************************)
(* Model of backend/main.py: the asteroid-impact backend.  Three request   *)
(* handlers (catalog proxy, impact simulation, report generation), the     *)
(* two helpers of the report flow (get_impact_country, get_llm_suggestions)*)
(* and the start-up configuration of the Gemini model.                     *)
(*                                                                         *)
(* Handlers are `async def` bodies without any await, so the event loop    *)
(* runs one handler from its first line to its response before the next    *)
(* one starts; pc is the position of that single running handler.          *)
(*                                                                         *)
(* Arithmetic.  The physics of simulate_impact is a chain of products,     *)
(* quotients and rational powers.  A quantity is modelled exactly as a     *)
(* signed monomial   sgn * 2^a * 3^b * 5^c * 7^d * 523^f * pi^g   whose    *)
(* exponents are rationals kept as integers in units of 1/Unit.  Rounding  *)
(* of IEEE doubles is not modelled.                                        *)
(***************************************************************************)
EXTENDS Integers, Sequences, FiniteSets, TLC

(***************************************************************************)
(* Bounds of the model.                                                    *)
(***************************************************************************)
MaxRadius == 2
MaxDensity == 2
MaxSpeed == 1

\* Exponents 1/3 (line 132) and 1/3.4 = 5/17 (line 131) need denominators 3 and 17.
Unit == 3 * 17

None == "None"

(***************************************************************************)
(* Exact monomial arithmetic.                                              *)
(***************************************************************************)
ZeroExp == [p2 |-> 0, p3 |-> 0, p5 |-> 0, p7 |-> 0, p523 |-> 0, pi |-> 0]

Real(s, x) == [complex |-> FALSE, sgn |-> s, e |-> x]

Zero == Real(0, ZeroExp)

\* A Python complex number: what float ** float gives for a negative base
\* and a fractional exponent.  Its value is not tracked.
Complex == [complex |-> TRUE, sgn |-> 0, e |-> ZeroExp]

RECURSIVE PrimeExp(_, _)
PrimeExp(n, p) == IF n > 0 /\ n % p = 0 THEN 1 + PrimeExp(n \div p, p) ELSE 0

Abs(n) == IF n < 0 THEN -n ELSE n

Sign(n) == IF n < 0 THEN -1 ELSE IF n = 0 THEN 0 ELSE 1

\* The monomial of an integer whose prime factors are among 2, 3, 5, 7, 523.
FromInt(n) ==
    IF n = 0 THEN Zero
    ELSE Real(Sign(n),
              [p2 |-> Unit * PrimeExp(Abs(n), 2), p3 |-> Unit * PrimeExp(Abs(n), 3),
               p5 |-> Unit * PrimeExp(Abs(n), 5), p7 |-> Unit * PrimeExp(Abs(n), 7),
               p523 |-> Unit * PrimeExp(Abs(n), 523), pi |-> 0])

AddExp(x, y) ==
    [p2 |-> x.p2 + y.p2, p3 |-> x.p3 + y.p3, p5 |-> x.p5 + y.p5,
     p7 |-> x.p7 + y.p7, p523 |-> x.p523 + y.p523, pi |-> x.pi + y.pi]

ScaleExp(x, num, den) ==
    [p2 |-> (x.p2 * num) \div den, p3 |-> (x.p3 * num) \div den,
     p5 |-> (x.p5 * num) \div den, p7 |-> (x.p7 * num) \div den,
     p523 |-> (x.p523 * num) \div den, pi |-> (x.pi * num) \div den]

\* a * b
Mul(a, b) ==
    IF a.complex \/ b.complex THEN Complex
    ELSE IF a.sgn = 0 \/ b.sgn = 0 THEN Zero
    ELSE Real(a.sgn * b.sgn, AddExp(a.e, b.e))

\* 1 / b for b # 0
Inv(b) == IF b.complex THEN Complex ELSE Real(b.sgn, ScaleExp(b.e, -1, 1))

\* a / b for b # 0 (float division by zero raises, see DivRaises)
Div(a, b) == Mul(a, Inv(b))

DivRaises(b) == ~b.complex /\ b.sgn = 0

\* a ** k for a literal integer k > 0
IntPow(a, k) ==
    IF a.complex THEN Complex
    ELSE IF a.sgn = 0 THEN Zero
    ELSE Real(IF k % 2 = 0 THEN 1 ELSE a.sgn, ScaleExp(a.e, k, 1))

\* a ** (num/den) for a non-integer exponent num/den > 0: Python's float
\* power returns a complex number for a negative base.
FracPow(a, num, den) ==
    IF a.complex \/ a.sgn < 0 THEN Complex
    ELSE IF a.sgn = 0 THEN Zero
    ELSE Real(1, ScaleExp(a.e, num, den))

\* The monomial of the rational num/den, den > 0.
FromRat(num, den) == Div(FromInt(num), FromInt(den))

Pi == Real(1, [ZeroExp EXCEPT !.pi = Unit])


(***************************************************************************)
(* Numeric literals of main.py.                                            *)
(***************************************************************************)
\* (4/3), line 127
FourThirds == FromRat(4, 3)

\* 0.5, line 128
Half == FromRat(1, 2)


\* Variant: a quarter of the energy is lost.
energy_lost_quarter == <<1, 4>>

\* energy_lost_to_atmosphere = 0.5, line 129, as the rational <<num, den>>
energy_lost_to_atmosphere == <<1, 2>>

\* (1 - energy_lost_to_atmosphere), line 130
OneMinus(q) == FromRat(q[2] - q[1], q[2])

\* 0.00016 = 16 / 10^5, line 131
CraterCoefficient == Div(FromInt(16), IntPow(FromInt(10), 5))

\* 9.8 = 98 / 10, line 131
Gravity == FromRat(98, 10)

\* 1000, lines 131, 132, 77, 78
Thousand == FromInt(1000)

\* 1e12, line 132
E12 == IntPow(FromInt(10), 12)

\* 4.184e12 = 4184 * 10^9, line 139
JoulesPerKiloton == Mul(FromInt(4184), IntPow(FromInt(10), 9))

\* 4.184e15 = 4184 * 10^12, line 70
JoulesPerMegaton == Mul(FromInt(4184), IntPow(FromInt(10), 12))

(***************************************************************************)
(* POST /api/simulate: the impact physics, lines 124-140.                  *)
(***************************************************************************)
Names == {None, "Apophis"}

Angles == {0, 45}

\* AsteroidParams, lines 94-99: any float passes validation, also 0 and
\* negative ones.
AsteroidParams ==
    [name : Names, radius : (-1)..MaxRadius, density : (-1)..MaxDensity,
     speed : 1..MaxSpeed, angle : Angles]

Estimate(m, k, i, c, s, t) ==
    [mass_kg |-> m, kinetic_energy_joules |-> k, impact_energy_joules |-> i,
     crater_diameter_meters |-> c, shockwave_radius_meters |-> s,
     energy_equivalent_kt_tnt |-> t]

NoEstimate == Estimate(Zero, Zero, Zero, Zero, Zero, Zero)

\* SimulationResult, lines 101-107: every field must be a float.
ValidSimulationResult(b) ==
    /\ ~b.mass_kg.complex
    /\ ~b.kinetic_energy_joules.complex
    /\ ~b.impact_energy_joules.complex
    /\ ~b.crater_diameter_meters.complex
    /\ ~b.shockwave_radius_meters.complex
    /\ ~b.energy_equivalent_kt_tnt.complex

mass_of(asteroid) ==
    Mul(Mul(Mul(FourThirds, Pi), IntPow(FromInt(asteroid.radius), 3)),
        FromInt(asteroid.density))


\* Variant: only the vertical component speed * sin(angle) counts, so a
\* grazing entry (angle 0) delivers nothing.
kinetic_energy_of_angle(mass, asteroid) ==
    IF asteroid.angle = 0 THEN Zero
    ELSE Mul(Mul(Half, mass), IntPow(FromInt(asteroid.speed), 2))

kinetic_energy_of(mass, asteroid) ==
    Mul(Mul(Half, mass), IntPow(FromInt(asteroid.speed), 2))

impact_energy_of(kinetic_energy) ==
    Mul(kinetic_energy, OneMinus(energy_lost_to_atmosphere))


\* Variant: the energy-only scaling law, without the density in the quotient.
crater_diameter_of_energy_only(impact_energy, asteroid) ==
    Mul(Mul(CraterCoefficient, FracPow(Div(impact_energy, Gravity), 5, 17)), Thousand)

crater_diameter_of(impact_energy, asteroid) ==
    Mul(Mul(CraterCoefficient,
            FracPow(Div(impact_energy, Mul(Gravity, FromInt(asteroid.density))), 5, 17)),
        Thousand)

shockwave_radius_of(impact_energy) ==
    Mul(FracPow(Div(impact_energy, E12), 1, 3), Thousand)

\* The handler's outcome: the response body, or the exception that ends it.
simulate_impact(asteroid) ==
    LET mass == mass_of(asteroid)
        kinetic_energy == kinetic_energy_of(mass, asteroid)
        impact_energy == impact_energy_of(kinetic_energy)
    IN  IF DivRaises(Mul(Gravity, FromInt(asteroid.density)))
        THEN [exception |-> "ZeroDivisionError", body |-> NoEstimate]
        ELSE LET body == Estimate(mass, kinetic_energy, impact_energy,
                                  crater_diameter_of(impact_energy, asteroid),
                                  shockwave_radius_of(impact_energy),
                                  Div(impact_energy, JoulesPerKiloton))
             IN  IF ValidSimulationResult(body)
                 THEN [exception |-> "", body |-> body]
                 ELSE [exception |-> "ResponseValidationError", body |-> NoEstimate]

(***************************************************************************)
(* Start-up configuration, lines 29-35.                                    *)
(***************************************************************************)
EnvValues == {None, "", "YOUR_GEMINI_API_KEY", "AIza-key"}


\* Variant: the placeholder value is taken for a credential.
ConfigureModel_no_placeholder_test(key) ==
    IF key = None \/ key = "" THEN None ELSE "GenerativeModel"

ConfigureModel(key) ==
    IF key = None \/ key = "" \/ key = "YOUR_GEMINI_API_KEY"
    THEN None
    ELSE "GenerativeModel"

(***************************************************************************)
(* Location resolver, lines 47-55.                                         *)
(***************************************************************************)
Fallback == "an unknown location (likely an ocean)"

Countries == {"Egypt", "Chile"}

\* What geolocator.reverse can do: raise, return None, or return a location
\* whose raw dict has no address, an address that is no dict, an address
\* without a country, or an address with one.
GeoOutcomes ==
    [kind : {"raise", "none", "no_address", "bad_address", "no_country"}, country : {""}]
        \cup [kind : {"address"}, country : Countries]

Return(v) == [raises |-> FALSE, value |-> v]

Raise(e) == [raises |-> TRUE, value |-> e]


\* Variant: no try/except around the geocoder call.
get_impact_country_no_except(o) ==
    IF o.kind = "raise" THEN Raise("GeocoderServiceError")
    ELSE IF o.kind = "address" THEN Return(o.country)
    ELSE Return(Fallback)

get_impact_country(o) ==
    IF o.kind = "raise" THEN Return(Fallback)              \* except, line 53
    ELSE IF o.kind = "none" THEN Return(Fallback)          \* location is falsy
    ELSE IF o.kind = "no_address" THEN Return(Fallback)    \* .get('address', {})
    ELSE IF o.kind = "bad_address" THEN Return(Fallback)   \* TypeError, caught
    ELSE IF o.kind = "no_country" THEN Return(Fallback)
    ELSE Return(o.country)

(***************************************************************************)
(* Advisory generator, lines 57-89.                                        *)
(***************************************************************************)
Placeholder == "### Placeholder Report: Your Gemini API key is not configured."

ErrorPrefix == "An error occurred while generating the report from Gemini: "

Texts == {"", "Evacuate the coast."}

Messages == {"", "deadline exceeded"}

\* What model.generate_content and response.text can do: return text, raise
\* in generate_content, or raise ValueError when .text is read.
LlmOutcomes == [kind : {"text"}, text : Texts]
                   \cup [kind : {"raise_generate", "raise_text"}, text : Messages]

Unconfigured(m) == m = None

\* Lines 70-84.  The values are rendered with two decimals in the prompt text;
\* the rendering is not modelled, the prompt only travels to the upstream.
Prompt(impact_energy, crater_diameter, shockwave_radius, country) ==
    [country |-> country,
     energy_in_megatons |-> Div(impact_energy, JoulesPerMegaton),
     crater_km |-> Div(crater_diameter, Thousand),
     shockwave_km |-> Div(shockwave_radius, Thousand)]


\* Variant: only generate_content is guarded, reading response.text is not.
llm_return_text_unguarded(o) ==
    IF o.kind = "text" THEN Return(o.text)
    ELSE IF o.kind = "raise_text" THEN Raise("ValueError")
    ELSE Return(ErrorPrefix \o o.text)

\* Lines 85-89.
llm_return(o) ==
    IF o.kind = "text" THEN Return(o.text) ELSE Return(ErrorPrefix \o o.text)

(***************************************************************************)
(* Catalog proxy, lines 116-122.                                           *)
(***************************************************************************)
StatusCodes == {200, 204, 404, 503}

Bodies == {"{\"page\":1}", "{ \"page\" : 1 }", "<html>"}

CatalogOutcomes == [kind : {"raise"}, status : {0}, text : {""}]
                       \cup [kind : {"http"}, status : StatusCodes, text : Bodies]

\* response.json(), line 122
IsJson(text) == text \in {"{\"page\":1}", "{ \"page\" : 1 }"}

ParseJson(text) == IF IsJson(text) THEN "object(page=1)" ELSE "invalid"

\* response.raise_for_status(), line 121
IsErrorStatus(status) == 400 <= status /\ status < 600


\* Variant: raise_for_status is not called.
get_asteroids_return_no_status_check(o) ==
    IF o.kind = "raise" THEN Raise("ConnectionError")
    ELSE IF ~IsJson(o.text) THEN Raise("JSONDecodeError")
    ELSE Return(ParseJson(o.text))

get_asteroids_return(o) ==
    IF o.kind = "raise" THEN Raise("ConnectionError")
    ELSE IF IsErrorStatus(o.status) THEN Raise("HTTPError")
    ELSE IF ~IsJson(o.text) THEN Raise("JSONDecodeError")
    ELSE Return(ParseJson(o.text))

(***************************************************************************)
(* Requests of POST /api/generate-report, lines 109-111.                   *)
(***************************************************************************)
CoordKeys == {"lat", "lng"}

CoordValues == {30}

\* Dict[str, float]: any mapping passes validation, also one without lat or lng.
ImpactCoords == UNION {[K -> CoordValues] : K \in SUBSET CoordKeys}

SampleAsteroids == {[name |-> None, radius |-> 1, density |-> d, speed |-> 1, angle |-> 0] : d \in 1..2}

SimulationResults == {simulate_impact(a).body : a \in SampleAsteroids} \cup {NoEstimate}

ReportRequests == [simulation_result : SimulationResults, impact_coords : ImpactCoords]

(***************************************************************************)
(* The service.                                                            *)
(***************************************************************************)
VARIABLES
    GEMINI_API_KEY, \* the environment value read at line 29
    model,          \* the module global of lines 32/35
    pc,             \* where the running handler is: "idle" when none runs
    request,        \* the request of the running handler
    country,        \* generate_report's local, line 145
    upstream,       \* what the upstream calls of the running handler did
    events,         \* the calls the running handler has made, in order
    last,           \* the last completed exchange
    asteroids,      \* physics check: a pair of parameter records
    estimates       \* physics check: simulate_impact of each

vars == <<GEMINI_API_KEY, model, pc, request, country, upstream, events, last,
          asteroids, estimates>>

service == <<GEMINI_API_KEY, model, pc, request, country, upstream, events, last>>

Event(e, a) == [ev |-> e, arg |-> a]

Response(status, exception, body) == [status |-> status, exception |-> exception, body |-> body]

\* An exception that leaves a handler becomes the framework's 500 response.
ServerError(exception) == Response(500, exception, "Internal Server Error")

Exchange(endpoint, req, ups, evs, resp) ==
    [endpoint |-> endpoint, request |-> req, upstream |-> ups, events |-> evs,
     response |-> resp]

NoExchange == Exchange("none", None, <<>>, <<>>, Response(0, "", ""))

Complete(x) ==
    /\ last' = x
    /\ pc' = "idle"
    /\ request' = None
    /\ country' = ""
    /\ upstream' = <<>>
    /\ events' = <<>>

InitService ==
    /\ GEMINI_API_KEY \in EnvValues
    /\ model = ConfigureModel(GEMINI_API_KEY)
    /\ pc = "idle"
    /\ request = None
    /\ country = ""
    /\ upstream = <<>>
    /\ events = <<>>
    /\ last = NoExchange

Init ==
    /\ InitService
    /\ asteroids = <<>>
    /\ estimates = <<>>

\* GET /api/asteroids, lines 119-120: requests.get is issued.
RecvAsteroids ==
    /\ pc = "idle"
    /\ pc' = "fetching"
    /\ request' = "GET /api/asteroids"
    /\ events' = <<Event("catalog_call", "")>>
    /\ UNCHANGED <<GEMINI_API_KEY, model, country, upstream, last, asteroids, estimates>>

\* Lines 120-122: the upstream answers.
AsteroidsReply(o) ==
    /\ pc = "fetching"
    /\ LET r == get_asteroids_return(o)
       IN  Complete(Exchange("asteroids", request, <<o>>, Append(events, Event("catalog_return", "")),
                             IF r.raises THEN ServerError(r.value)
                             ELSE Response(200, "", r.value)))
    /\ UNCHANGED <<GEMINI_API_KEY, model, asteroids, estimates>>

\* POST /api/simulate, lines 124-140.
Simulate(asteroid) ==
    /\ pc = "idle"
    /\ LET r == simulate_impact(asteroid)
       IN  Complete(Exchange("simulate", asteroid, <<>>, <<>>,
                             IF r.exception # "" THEN ServerError(r.exception)
                             ELSE Response(200, "", r.body)))
    /\ UNCHANGED <<GEMINI_API_KEY, model, asteroids, estimates>>

\* POST /api/generate-report, line 145: the two subscripts are evaluated,
\* then get_impact_country issues geolocator.reverse (line 50).
RecvReport(req) ==
    /\ pc = "idle"
    /\ IF "lat" \in DOMAIN req.impact_coords /\ "lng" \in DOMAIN req.impact_coords
       THEN /\ pc' = "geocoding"
            /\ request' = req
            /\ events' = <<Event("geo_call", "")>>
            /\ UNCHANGED <<country, upstream, last>>
       ELSE Complete(Exchange("generate-report", req, <<>>, <<>>, ServerError("KeyError")))
    /\ UNCHANGED <<GEMINI_API_KEY, model, asteroids, estimates>>

\* Lines 50-55 and 145: the geocoder answers, get_impact_country returns.
GeocodeReply(o) ==
    /\ pc = "geocoding"
    /\ LET r == get_impact_country(o)
       IN  IF r.raises
           THEN Complete(Exchange("generate-report", request, <<o>>, events, ServerError(r.value)))
           ELSE /\ country' = r.value
                /\ upstream' = Append(upstream, o)
                /\ events' = Append(events, Event("geo_return", r.value))
                /\ pc' = "generate"
                /\ UNCHANGED <<request, last>>
    /\ UNCHANGED <<GEMINI_API_KEY, model, asteroids, estimates>>

\* Lines 146-151 and 59-86: get_llm_suggestions is called; it returns the
\* placeholder at once, or builds the prompt and issues generate_content.
InvokeGenerator ==
    /\ pc = "generate"
    /\ LET invoked == Append(events, Event("gen_invoke", country))
       IN  IF Unconfigured(model)
           THEN Complete(Exchange("generate-report", request, upstream, invoked,
                                  Response(200, "", [report |-> Placeholder])))
           ELSE /\ pc' = "llm"
                /\ events' = Append(invoked,
                                    Event("llm_call",
                                          Prompt(request.simulation_result.impact_energy_joules,
                                                 request.simulation_result.crater_diameter_meters,
                                                 request.simulation_result.shockwave_radius_meters,
                                                 country)))
                /\ UNCHANGED <<request, country, upstream, last>>
    /\ UNCHANGED <<GEMINI_API_KEY, model, asteroids, estimates>>


\* Variant: a failed upstream call switches the generator off.
LlmReply_disables_model(o) ==
    /\ pc = "llm"
    /\ LET r == llm_return(o)
       IN  Complete(Exchange("generate-report", request, Append(upstream, o),
                             Append(events, Event("llm_return", "")),
                             Response(200, "", [report |-> r.value])))
    /\ model' = IF o.kind = "text" THEN model ELSE None
    /\ UNCHANGED <<GEMINI_API_KEY, asteroids, estimates>>

\* Lines 86-89 and 152: the model answers, the report is returned.
LlmReply(o) ==
    /\ pc = "llm"
    /\ LET r == llm_return(o)
       IN  Complete(Exchange("generate-report", request, Append(upstream, o),
                             Append(events, Event("llm_return", "")),
                             IF r.raises THEN ServerError(r.value)
                             ELSE Response(200, "", [report |-> r.value])))
    /\ UNCHANGED <<GEMINI_API_KEY, model, asteroids, estimates>>

Next ==
    \/ RecvAsteroids
    \/ \E o \in CatalogOutcomes : AsteroidsReply(o)
    \/ \E asteroid \in AsteroidParams : Simulate(asteroid)
    \/ \E req \in ReportRequests : RecvReport(req)
    \/ \E o \in GeoOutcomes : GeocodeReply(o)
    \/ InvokeGenerator
    \/ \E o \in LlmOutcomes : LlmReply(o)

Spec == Init /\ [][Next]_vars

(***************************************************************************)
(* The physics on a pair of parameter records.                             *)
(***************************************************************************)
NotComputed == [exception |-> "pending", body |-> NoEstimate]

InitPhysics ==
    /\ GEMINI_API_KEY = None
    /\ model = ConfigureModel(GEMINI_API_KEY)
    /\ pc = "idle"
    /\ request = None
    /\ country = ""
    /\ upstream = <<>>
    /\ events = <<>>
    /\ last = NoExchange
    /\ asteroids \in AsteroidParams \X AsteroidParams
    /\ estimates = <<NotComputed, NotComputed>>

Compute(i) ==
    /\ estimates[i] = NotComputed
    /\ estimates' = [estimates EXCEPT ![i] = simulate_impact(asteroids[i])]
    /\ UNCHANGED <<service, asteroids>>

NextPhysics == \E i \in 1..2 : Compute(i)

SpecPhysics == InitPhysics /\ [][NextPhysics]_vars

(***************************************************************************)
(* Properties.                                                             *)
(***************************************************************************)
ReportDone == pc = "idle" /\ last.endpoint = "generate-report"

CatalogDone == pc = "idle" /\ last.endpoint = "asteroids"

SimulateDone == pc = "idle" /\ last.endpoint = "simulate"

HasEvent(evs, e) == \E i \in 1..Len(evs) : evs[i].ev = e

\* C1: POST /api/generate-report never fails once past validation: whatever
\* the accepted body and whatever the two upstreams do, the response is
\* {report: <string>} and no exception leaves the handler.
C1_ReportNeverFails ==
    ReportDone => /\ last.response.status = 200
                  /\ last.response.exception = ""

\* What the resolver is to return for an upstream outcome.
ExpectedCountry(o) == IF o.kind = "address" THEN o.country ELSE Fallback

\* C2: get_impact_country returns the upstream's country when the address
\* has one and exactly the fallback string for every other upstream outcome,
\* and never lets an exception out.
C2_ResolverFallback ==
    /\ pc \in {"generate", "llm"} => country = ExpectedCountry(upstream[1])
    /\ (ReportDone /\ Len(last.upstream) >= 1) =>
           /\ Len(last.events) >= 2
           /\ last.events[2] = Event("geo_return", ExpectedCountry(last.upstream[1]))

C2_Witness ==
    /\ pc = "generate"
    /\ upstream[1].kind = "raise"
    /\ country = Fallback

UnconfiguredKey == GEMINI_API_KEY \in {None, "", "YOUR_GEMINI_API_KEY"}

\* C3: with the credential missing, empty or the placeholder value, the
\* generator returns the fixed placeholder text for every input and never
\* calls the LLM upstream.
C3_UnconfiguredPlaceholder ==
    UnconfiguredKey =>
        /\ pc # "llm"
        /\ ~HasEvent(events, "llm_call")
        /\ ReportDone =>
               /\ ~HasEvent(last.events, "llm_call")
               /\ Len(last.upstream) <= 1
               /\ HasEvent(last.events, "gen_invoke") =>
                      /\ last.response.status = 200
                      /\ last.response.body.report = Placeholder

C3_Witness ==
    /\ GEMINI_API_KEY = "YOUR_GEMINI_API_KEY"
    /\ ReportDone
    /\ HasEvent(last.events, "gen_invoke")
    /\ last.request.simulation_result # NoEstimate
    /\ last.events[3].arg \in Countries
    /\ last.response.body.report = Placeholder

LlmAnswered == ReportDone /\ Len(last.upstream) = 2

\* C4: in the Configured state the generator returns the upstream's text
\* verbatim when the call succeeds, and when generate_content or reading the
\* text raises it returns a non-empty text describing the error, raising
\* nothing.
C4_ConfiguredResult ==
    LlmAnswered =>
        /\ last.response.status = 200
        /\ last.response.exception = ""
        /\ IF last.upstream[2].kind = "text"
           THEN last.response.body.report = last.upstream[2].text
           ELSE /\ last.response.body.report # ""
                /\ last.response.body.report = ErrorPrefix \o last.upstream[2].text

C4_Witness ==
    /\ LlmAnswered
    /\ last.upstream[2].kind = "raise_text"
    /\ last.response.status = 200
    /\ last.response.body.report # ""

\* C5: the catalog proxy fails the request when the upstream answers 4xx/5xx
\* and returns nothing built from that answer; on 2xx it returns the upstream
\* JSON body as it is; no other handler turns an upstream failure into a
\* request error.
C5_CatalogPropagates ==
    /\ (CatalogDone /\ last.upstream[1].kind = "http") =>
           /\ (last.upstream[1].status >= 400 /\ last.upstream[1].status <= 599) =>
                  /\ last.response.status = 500
                  /\ last.response.exception = "HTTPError"
                  /\ last.response.body # ParseJson(last.upstream[1].text)
           /\ (last.upstream[1].status >= 200 /\ last.upstream[1].status <= 299
                   /\ IsJson(last.upstream[1].text)) =>
                  /\ last.response.status = 200
                  /\ last.response.body = ParseJson(last.upstream[1].text)
    /\ (pc = "idle" /\ last.endpoint \in {"simulate", "generate-report"}
            /\ last.response.status # 200) => last.upstream = <<>>

C5_Witness ==
    /\ CatalogDone
    /\ last.upstream[1].kind = "http"
    /\ last.upstream[1].status = 503
    /\ IsJson(last.upstream[1].text)
    /\ last.response.status = 500

\* The calls of one report request: one geocoding call, its return, one
\* invocation of the generator with the returned string, and then at most
\* one LLM call and its return.
ReportTrace(evs) ==
    /\ Len(evs) \in {3, 5}
    /\ evs[1].ev = "geo_call"
    /\ evs[2].ev = "geo_return"
    /\ evs[3] = Event("gen_invoke", evs[2].arg)
    /\ Len(evs) = 5 => evs[4].ev = "llm_call" /\ evs[5].ev = "llm_return"

\* C6: inside one generate-report request exactly one geocoding call is
\* issued and has returned before the generator is invoked; the generator is
\* invoked exactly once, with the resolver's string as country, and issues at
\* most one LLM call; nothing is retried.
C6_OneCallEachInOrder == ReportDone => ReportTrace(last.events)

\* The same for the requests that carry both lat and lng.
OrderingWhenCoordsPresent ==
    (ReportDone /\ CoordKeys \subseteq DOMAIN last.request.impact_coords)
        => ReportTrace(last.events)

BothComputed == estimates[1] # NotComputed /\ estimates[2] # NotComputed

BothSucceeded == BothComputed /\ estimates[1].exception = "" /\ estimates[2].exception = ""

SamePhysics ==
    /\ asteroids[1].radius = asteroids[2].radius
    /\ asteroids[1].density = asteroids[2].density
    /\ asteroids[1].speed = asteroids[2].speed

\* C7: two parameter records that agree on radius, density and speed and
\* differ only in angle and name get the same six values from
\* simulate_impact.
C7_AngleAndNameIgnored == (BothComputed /\ SamePhysics) => estimates[1] = estimates[2]

C7_Witness ==
    /\ BothSucceeded
    /\ SamePhysics
    /\ asteroids[1].angle # asteroids[2].angle
    /\ asteroids[1].name # asteroids[2].name
    /\ estimates[1].body.mass_kg.sgn # 0

\* C8: in every simulate response impact_energy_joules is exactly half of
\* kinetic_energy_joules.
C8_ImpactIsHalfKinetic ==
    (SimulateDone /\ last.response.status = 200) =>
        Mul(last.response.body.impact_energy_joules, FromInt(2))
            = last.response.body.kinetic_energy_joules

C8_Witness ==
    /\ SimulateDone
    /\ last.response.status = 200
    /\ last.response.body.kinetic_energy_joules.sgn # 0

\* The second record has twice the density of the first, same radius and speed.
DensityDoubled ==
    /\ BothSucceeded
    /\ asteroids[1].radius = asteroids[2].radius
    /\ asteroids[1].speed = asteroids[2].speed
    /\ asteroids[2].density = 2 * asteroids[1].density

Twice(a, b) == b = Mul(a, FromInt(2))

EnergiesDoubled ==
    /\ Twice(estimates[1].body.mass_kg, estimates[2].body.mass_kg)
    /\ Twice(estimates[1].body.kinetic_energy_joules, estimates[2].body.kinetic_energy_joules)
    /\ Twice(estimates[1].body.impact_energy_joules, estimates[2].body.impact_energy_joules)

\* 0.00016 * impact_energy^(1/3.4) * 1000: the crater law on the energy alone.
EnergyOnlyTerm(b) ==
    Mul(Mul(CraterCoefficient, FracPow(b.impact_energy_joules, 5, 17)), Thousand)

\* crater_diameter relative to the energy-only term (which must not be 0)
Relative(b) == Div(b.crater_diameter_meters, EnergyOnlyTerm(b))

HasRelative(b) == EnergyOnlyTerm(b).sgn # 0

\* 2^(1/3.4 - 1)
ClaimedFactor == Div(FracPow(FromInt(2), 5, 17), FromInt(2))

\* 2^(-1/3.4)
ActualFactor == Inv(FracPow(FromInt(2), 5, 17))

\* C9, as stated: doubling the density doubles mass, kinetic and impact
\* energy and changes crater_diameter by the factor 2^(1/3.4 - 1), taken
\* either on the diameter itself or on its ratio to the energy-only term.
C9_Original ==
    DensityDoubled =>
        /\ EnergiesDoubled
        /\ \/ estimates[2].body.crater_diameter_meters
                  = Mul(estimates[1].body.crater_diameter_meters, ClaimedFactor)
           \/ /\ HasRelative(estimates[1].body)
              /\ Relative(estimates[2].body) = Mul(Relative(estimates[1].body), ClaimedFactor)

\* C9, amended: doubling the density doubles mass, kinetic and impact energy
\* and leaves crater_diameter unchanged, which is the factor 2^(-1/3.4)
\* relative to the energy-only term.
C9_DensityScaling ==
    DensityDoubled =>
        /\ EnergiesDoubled
        /\ estimates[2].body.crater_diameter_meters = estimates[1].body.crater_diameter_meters
        /\ HasRelative(estimates[1].body) =>
               Relative(estimates[2].body) = Mul(Relative(estimates[1].body), ActualFactor)

C9_Witness ==
    /\ DensityDoubled
    /\ asteroids[1].density > 0
    /\ estimates[1].body.crater_diameter_meters.sgn > 0
    /\ HasRelative(estimates[1].body)
    /\ estimates[2].body.mass_kg # estimates[1].body.mass_kg

SameExchangeInputs(x, y) ==
    /\ x.endpoint = y.endpoint
    /\ x.request = y.request
    /\ x.upstream = y.upstream

\* C10: the Configured/Unconfigured flag keeps its start-up value through
\* every request, failed upstream calls included, and a request that meets
\* the same upstream outcomes as the one before it gets the same response.
C10_FlagFixedAtStartup ==
    [][/\ model' = model
       /\ model' = ConfigureModel(GEMINI_API_KEY')
       /\ SameExchangeInputs(last, last') => last'.response = last.response]_vars

C10_Witness ==
    /\ ReportDone
    /\ model = "GenerativeModel"
    /\ Len(last.upstream) = 2
    /\ last.upstream[2].kind = "raise_generate"
====
